---- MODULE Spec2Model ----
(***************************************************************************)
(* Medical appointment scheduling agent (main.py): the stage machine of   *)
(* SchedulingAgent driven by main()'s chat-input handling, with the       *)
(* language-model extractor, the patient directory, the slot provider,    *)
(* the Excel files and the SMTP server as the environment.                *)
(*                                                                         *)
(* Python values: a dict is a function from its keys to values, None is   *)
(* Null, True/False stored in a dict are the strings "True"/"False", a    *)
(* clock time HH:MM is its minute of the day and a slot string            *)
(* "HH:MM - HH:MM" is the record of its two times.                        *)
(***************************************************************************)
EXTENDS Integers, Sequences, FiniteSets, TLC

VARIABLES
    stage,                \* st.session_state.stage
    current_patient,      \* st.session_state.current_patient
    appointment_data,     \* st.session_state.appointment_data
    conversation_history, \* st.session_state.conversation_history
    doctor_schedules_df,  \* CalendarManager: TRUE when doctor_schedules.xlsx was loaded
    appointments,         \* rows of appointments_<today>.xlsx
    calendar_bookings,    \* rows of calendar_bookings_<today>.xlsx
    reminders,            \* rows of reminders_<today>.xlsx
    emails,               \* messages the SMTP server accepted
    response,             \* the response of the last processed input
    uncaught,             \* TRUE when the last input ended in an uncaught exception
    conversation,         \* what the current booking conversation has done so far
    inputs,               \* chat inputs processed so far
    record_history,       \* whether this specification records the history
    pc,                   \* of each concurrent session: the file step it is at
    new_df,               \* of each concurrent session: the frame it is about to write
    agent_state           \* langgraph_agents.py: the graph's node and AgentState

vars == <<stage, current_patient, appointment_data, conversation_history,
          doctor_schedules_df, appointments, calendar_bookings, reminders,
          emails, response, uncaught, conversation, inputs, record_history,
          pc, new_df, agent_state>>

----------------------------------------------------------------------------
(* Bounds of the model *)

\* chat inputs that are processed
MaxInputs == 8
\* entries of the conversation history that are recorded
MaxHistory == 10

----------------------------------------------------------------------------
(* Python values and dicts *)

Null == "<None>"
\* a JSON number where a string was asked for
NonStr == "<123>"

EmptyDict == [k \in {} |-> Null]
Has(d, k) == k \in DOMAIN d
Get(d, k) == IF k \in DOMAIN d THEN d[k] ELSE Null
GetOr(d, k, default) == IF k \in DOMAIN d THEN d[k] ELSE default
Update(d, e) == e @@ d
Truthy(v) == v \notin {Null, "", "False"}
IsStr(v) == v \notin {Null, NonStr, "True", "False"}

HM(h, m) == h * 60 + m

----------------------------------------------------------------------------
(* The user's texts and str.isdigit, int and str.lower on them *)

Digits == {"0", "1", "2", "3", "4", "5", "6", "7"}
\* isdigit() is true of a superscript digit, which int() rejects
SuperscriptTwo == "<superscript 2>"
Words == {"yes", "YES", "y", "confirm", "ok", "Sure", "no", "No", "n", "cancel",
          "none", "NONE", "no insurance", "maybe", "-1", "Aetna A123", "next thursday",
          "hello"}
UserInputs == Digits \cup {SuperscriptTwo} \cup Words

isdigit(s) == s \in Digits \cup {SuperscriptTwo}

IntParses(s) == s \in Digits \cup {"-1"}

int(s) ==
    CASE s = "0" -> 0 [] s = "1" -> 1 [] s = "2" -> 2 [] s = "3" -> 3
      [] s = "4" -> 4 [] s = "5" -> 5 [] s = "6" -> 6 [] s = "7" -> 7
      [] s = "-1" -> -1

lower(s) ==
    CASE s = "YES" -> "yes"
      [] s = "Sure" -> "sure"
      [] s = "No" -> "no"
      [] s = "NONE" -> "none"
      [] s = "Aetna A123" -> "aetna a123"
      [] s = "John Doe" -> "john doe"
      [] s = "Jane Smith" -> "jane smith"
      [] s = "Ann Lee" -> "ann lee"
      [] s = "John" -> "john"
      [] s = "Jane" -> "jane"
      [] s = "Doe" -> "doe"
      [] s = "Smith" -> "smith"
      [] OTHER -> s

\* str.split() of the lower-cased names of the model
split(s) ==
    CASE s = "john doe" -> <<"john", "doe">>
      [] s = "jane smith" -> <<"jane", "smith">>
      [] s = "ann lee" -> <<"ann", "lee">>
      [] s = "" -> <<>>
      [] OTHER -> <<s>>

----------------------------------------------------------------------------
(* Responses: the text a handler returns, by its template and its number *)

Resp(kind) == [kind |-> kind, n |-> 0, missing |-> {}]
RespN(kind, n) == [kind |-> kind, n |-> n, missing |-> {}]
RespMissing(missing) == [kind |-> "provide_missing", n |-> 0, missing |-> missing]
\* no response: the input ended in an uncaught exception
NoResponse == Resp("<exception>")
\* the model's text came back empty
EmptyText == Resp("")
HelloGeneric == Resp("hello_provide_all")

NonEmpty(r) == r.kind \notin {"", "<exception>"}

Stages == {"greeting", "patient_lookup", "scheduling", "insurance", "confirmation"}

----------------------------------------------------------------------------
(* The machine a handler works on: the session, the files, and what the   *)
(* handler has called (calls) and assigned to stage (path) so far.        *)

Result(m, resp) == [m |-> m, response |-> resp, exc |-> FALSE]
Raise(m) == [m |-> m, response |-> NoResponse, exc |-> TRUE]
Call(m, name) == [m EXCEPT !.calls = Append(@, name)]
SetStage(m, s) == [m EXCEPT !.stage = s, !.path = Append(@, s)]

----------------------------------------------------------------------------
(* PatientLookupTool *)

\* the fallback patients table
patients_df ==
    << [patient_id |-> "P0001", first_name |-> "John", last_name |-> "Doe",
        dob |-> "1990-01-01", phone |-> "+919876543210", email |-> "john@example.com",
        insurance_company |-> "Max Bupa", member_id |-> "MB123", is_returning |-> "True"],
       [patient_id |-> "P0002", first_name |-> "Jane", last_name |-> "Smith",
        dob |-> "1985-05-15", phone |-> "+919876543211", email |-> "jane@example.com",
        insurance_company |-> "Star Health", member_id |-> "SH456", is_returning |-> "False"] >>

lookup_patient(name, dob) ==
    IF ~IsStr(name) THEN [exc |-> TRUE, record |-> EmptyDict]
    ELSE
      LET name_parts == split(lower(name))
          first_name == IF Len(name_parts) > 0 THEN name_parts[1] ELSE ""
          last_name == IF Len(name_parts) > 1 THEN name_parts[Len(name_parts)] ELSE ""
          ByName(row) == lower(row.first_name) = first_name \/ lower(row.last_name) = last_name
          ByDob(row) == row.dob = dob
          matches == SelectSeq(patients_df, ByName)
          matches2 == IF Len(matches) > 0 /\ Truthy(dob)
                      THEN SelectSeq(matches, ByDob) ELSE matches
      IN [exc |-> FALSE,
          record |-> IF Len(matches2) > 0 THEN matches2[1] ELSE EmptyDict]

----------------------------------------------------------------------------
(* SchedulingAgent: greeting and patient lookup *)

\* a lookup that books every patient it finds as returning, for 30 minutes
handle_patient_lookup_found_is_30(m, user_input, env) ==
    LET cp == m.current_patient IN
    IF Truthy(Get(cp, "name")) /\ Truthy(Get(cp, "dob"))
    THEN
      LET m1 == Call(m, "lookup_patient")
          Looked(patient_record) ==
            IF patient_record.exc THEN Raise(m1)
            ELSE IF patient_record.record # EmptyDict
            THEN
              LET m2 == [m1 EXCEPT !.current_patient =
                            Update(@, [is_returning |-> "True"] @@ patient_record.record)]
              IN Result(SetStage(m2, "scheduling"), RespN("welcome_back", 30))
            ELSE
              LET m2 == [m1 EXCEPT !.current_patient = Update(@, [is_returning |-> "False"])]
              IN Result(SetStage(m2, "scheduling"), RespN("not_in_system", 60))
      IN Looked(lookup_patient(cp["name"], cp["dob"]))
    ELSE Result(m, Resp("need_complete_info"))

\* a lookup that leaves the returning flag alone when it finds nobody
handle_patient_lookup_keeps_flag(m, user_input, env) ==
    LET cp == m.current_patient IN
    IF Truthy(Get(cp, "name")) /\ Truthy(Get(cp, "dob"))
    THEN
      LET m1 == Call(m, "lookup_patient")
          Looked(patient_record) ==
            IF patient_record.exc THEN Raise(m1)
            ELSE IF patient_record.record # EmptyDict
            THEN
              LET m2 == [m1 EXCEPT !.current_patient = Update(@, patient_record.record)]
                  is_returning == Truthy(GetOr(patient_record.record, "is_returning", "False"))
                  duration == IF is_returning THEN 30 ELSE 60
              IN Result(SetStage(m2, "scheduling"), RespN("welcome_back", duration))
            ELSE Result(SetStage(m1, "scheduling"), RespN("not_in_system", 60))
      IN Looked(lookup_patient(cp["name"], cp["dob"]))
    ELSE Result(m, Resp("need_complete_info"))

handle_patient_lookup(m, user_input, env) ==
    LET cp == m.current_patient IN
    IF Truthy(Get(cp, "name")) /\ Truthy(Get(cp, "dob"))
    THEN
      LET m1 == Call(m, "lookup_patient")
          Looked(patient_record) ==
            IF patient_record.exc THEN Raise(m1)
            ELSE IF patient_record.record # EmptyDict
            THEN
              LET m2 == [m1 EXCEPT !.current_patient = Update(@, patient_record.record)]
                  is_returning == Truthy(GetOr(patient_record.record, "is_returning", "False"))
                  duration == IF is_returning THEN 30 ELSE 60
              IN Result(SetStage(m2, "scheduling"), RespN("welcome_back", duration))
            ELSE
              LET m2 == [m1 EXCEPT !.current_patient = Update(@, [is_returning |-> "False"])]
              IN Result(SetStage(m2, "scheduling"), RespN("not_in_system", 60))
      IN Looked(lookup_patient(cp["name"], cp["dob"]))
    ELSE Result(m, Resp("need_complete_info"))

handle_greeting(m, user_input, env) ==
    LET llm == env.greeting_llm
        m0 == Call(m, "generate_content")
    IN
    IF llm.kind # "dict" THEN Result(m0, HelloGeneric)
    ELSE
      LET extracted_info == llm.json
          m1 == [m0 EXCEPT !.current_patient = Update(@, extracted_info)]
          missing_info == {k \in {"name", "dob", "doctor"} : ~Truthy(Get(extracted_info, k))}
      IN IF missing_info # {} THEN Result(m1, RespMissing(missing_info))
         ELSE
           \* except Exception: the stage assigned before the lookup stays
           LET Caught(r) == IF r.exc THEN Result(r.m, HelloGeneric) ELSE r
           IN Caught(handle_patient_lookup(SetStage(m1, "patient_lookup"), "", env))

----------------------------------------------------------------------------
(* CalendarManager: the slot provider *)

\* the dates of the model: a Thursday and a Saturday
ValidDate(d) == d \in {"2025-01-09", "2025-01-11"}

\* datetime.strptime(d, '%Y-%m-%d').strftime('%A').lower()
DayName(d) == IF d = "2025-01-09" THEN "thursday" ELSE "saturday"

\* datetime.strptime(d, '%Y-%m-%d').toordinal()
DateOrdinal(d) == IF d = "2025-01-09" THEN 739260 ELSE 739262

Slot(start, end) == [start |-> start, end |-> end]
\* None where a slot string is expected
NoneSlot == Slot(-1, -1)

add_minutes(time_str, minutes) == (time_str + minutes) % 1440

\* the hardcoded schedules, for the days of the model's dates
doctor_schedules(doctor, day_name) ==
    CASE doctor = "Dr. Smith" /\ day_name = "thursday" ->
           <<HM(9, 30), HM(10, 30), HM(14, 0), HM(15, 30)>>
      [] doctor = "Dr. Johnson" /\ day_name = "thursday" ->
           <<HM(10, 0), HM(11, 0), HM(15, 0), HM(16, 0)>>
      [] OTHER -> <<>>

in_doctor_schedules(doctor, day_name) ==
    doctor \in {"Dr. Smith", "Dr. Johnson"}
    /\ day_name \in {"monday", "tuesday", "wednesday", "thursday", "friday"}

\* the time_slot column of the rows of doctor_schedules.xlsx for a doctor and a date
\* (every generated row has available = True)
schedule_rows(doctor, date_str) ==
    IF ValidDate(date_str) /\ DayName(date_str) = "thursday"
    THEN CASE doctor = "Dr. Smith" ->
                <<HM(9, 0), HM(10, 0), HM(11, 0), HM(14, 0), HM(15, 0), HM(16, 0)>>
           [] doctor = "Dr. Johnson" ->
                <<HM(10, 0), HM(11, 0), HM(14, 0), HM(15, 0), HM(16, 0)>>
           [] OTHER -> <<>>
    ELSE <<>>

default_slots ==
    <<Slot(HM(9, 0), HM(9, 30)), Slot(HM(10, 0), HM(10, 30)), Slot(HM(11, 0), HM(11, 30))>>

format_slots(starts, duration) ==
    [i \in 1..Len(starts) |-> Slot(starts[i], add_minutes(starts[i], duration))]

get_available_slots_with_calendly(df_loaded, doctor, date_str, duration) ==
    LET date_slots == IF df_loaded THEN schedule_rows(doctor, date_str) ELSE <<>> IN
    IF date_slots # <<>> THEN format_slots(date_slots, duration)
    \* strptime raises on a string that is no date
    ELSE IF ~ValidDate(date_str) THEN default_slots
    \* self.doctor_schedules is only set when the Excel file was not loaded
    ELSE IF df_loaded THEN default_slots
    ELSE IF in_doctor_schedules(doctor, DayName(date_str))
    THEN format_slots(doctor_schedules(doctor, DayName(date_str)), duration)
    ELSE default_slots

----------------------------------------------------------------------------
(* SchedulingAgent: scheduling, insurance *)

handle_scheduling(m, user_input, env) ==
    LET llm == env.date_llm
        m0 == Call(m, "generate_content")
        date_str == llm.text
    IN
    IF llm.kind = "raise" THEN Result(m0, Resp("provide_date"))
    ELSE IF date_str # "none" /\ Len(date_str) = 10
    THEN
      LET doctor == GetOr(m.current_patient, "doctor", "Dr. Smith")
          duration == IF Truthy(Get(m.current_patient, "is_returning")) THEN 30 ELSE 60
          available_slots ==
              get_available_slots_with_calendly(m.doctor_schedules_df, doctor, date_str, duration)
          m1 == [Call(m0, "get_available_slots") EXCEPT !.appointment_data =
                    [date |-> date_str, doctor |-> doctor, duration |-> duration,
                     available_slots |-> available_slots]]
      IN Result(m1, RespN("slots_offered", Len(available_slots)))
    ELSE Result(m0, Resp("date_not_understood"))

generate_confirmation_summary(m) == Resp("confirmation_summary")

NoInsuranceTokens == {"none", "no insurance", "no"}

\* an insurance stage that asks again when the extraction fails
handle_insurance_reprompts(m, user_input, env) ==
    IF Has(m.appointment_data, "selected_slot")
    THEN
      IF lower(user_input) \in NoInsuranceTokens
      THEN
        LET m1 == [m EXCEPT !.current_patient =
                      Update(@, [insurance_company |-> "None", member_id |-> "None"])]
        IN Result(SetStage(m1, "confirmation"), generate_confirmation_summary(m1))
      ELSE
        LET llm == env.insurance_llm
            m0 == Call(m, "generate_content")
        IN IF llm.kind = "dict"
           THEN
             LET m1 == [m0 EXCEPT !.current_patient = Update(@, llm.json)]
             IN Result(SetStage(m1, "confirmation"), generate_confirmation_summary(m1))
           ELSE Result(m0, Resp("provide_insurance"))
    ELSE Result(m, Resp("select_slot_first"))

\* an insurance stage that compares the text without lowering it
handle_insurance_case_sensitive(m, user_input, env) ==
    IF Has(m.appointment_data, "selected_slot")
    THEN
      IF user_input \in NoInsuranceTokens
      THEN
        LET m1 == [m EXCEPT !.current_patient =
                      Update(@, [insurance_company |-> "None", member_id |-> "None"])]
        IN Result(SetStage(m1, "confirmation"), generate_confirmation_summary(m1))
      ELSE
        LET llm == env.insurance_llm
            m0 == Call(m, "generate_content")
        IN IF llm.kind = "dict"
           THEN
             LET m1 == [m0 EXCEPT !.current_patient = Update(@, llm.json)]
             IN Result(SetStage(m1, "confirmation"), generate_confirmation_summary(m1))
           ELSE
             LET m1 == [m0 EXCEPT !.current_patient =
                           Update(@, [insurance_company |-> user_input, member_id |-> "Pending"])]
             IN Result(SetStage(m1, "confirmation"), generate_confirmation_summary(m1))
    ELSE Result(m, Resp("select_slot_first"))

handle_insurance(m, user_input, env) ==
    IF Has(m.appointment_data, "selected_slot")
    THEN
      IF lower(user_input) \in NoInsuranceTokens
      THEN
        LET m1 == [m EXCEPT !.current_patient =
                      Update(@, [insurance_company |-> "None", member_id |-> "None"])]
        IN Result(SetStage(m1, "confirmation"), generate_confirmation_summary(m1))
      ELSE
        LET llm == env.insurance_llm
            m0 == Call(m, "generate_content")
        IN IF llm.kind = "dict"
           THEN
             LET m1 == [m0 EXCEPT !.current_patient = Update(@, llm.json)]
             IN Result(SetStage(m1, "confirmation"), generate_confirmation_summary(m1))
           ELSE
             \* except: the fallback
             LET m1 == [m0 EXCEPT !.current_patient =
                           Update(@, [insurance_company |-> user_input, member_id |-> "Pending"])]
             IN Result(SetStage(m1, "confirmation"), generate_confirmation_summary(m1))
    ELSE Result(m, Resp("select_slot_first"))

----------------------------------------------------------------------------
(* EmailManager, ReminderSystem, CalendlyIntegration *)

\* smtplib accepts the message (ok) or send_email catches the error and returns False
send_email(m, to_email, subject, appointment_id, ok) ==
    LET m1 == Call(m, "send_email") IN
    IF ok THEN [m1 EXCEPT !.emails = Append(@, [to |-> to_email, subject |-> subject,
                                                 appointment_id |-> appointment_id])]
    ELSE m1

send_demo_reminders(m, appointment_record, env) ==
    IF Truthy(appointment_record.email)
    THEN
      LET to == appointment_record.email
          id == appointment_record.appointment_id
          m1 == send_email(m, to, "Demo: 7-Day Reminder", id, env.demo_ok)
          m2 == send_email(m1, to, "Demo: 1-Day Action Required", id, env.demo_ok)
      IN send_email(m2, to, "Demo: 2-Hour Final Confirmation", id, env.demo_ok)
    ELSE m

save_reminders(m, rows, env) ==
    LET m1 == Call(m, "save_reminders") IN
    IF env.save_ok THEN [m1 EXCEPT !.reminders = @ \o rows] ELSE m1

\* reminders whose last one goes out one hour before the slot starts
setup_reminders_one_hour(m, appointment_record, env) ==
    IF ~ValidDate(appointment_record.date) \/ appointment_record.time = NoneSlot
    THEN Raise(m)
    ELSE
      LET appointment_date == DateOrdinal(appointment_record.date)
          id == appointment_record.appointment_id
          rows ==
            << [reminder_id |-> <<"R1", id>>, appointment_id |-> id,
                type |-> "7_day_reminder", send_date |-> appointment_date - 7,
                actions_required |-> "None - General reminder"],
               [reminder_id |-> <<"R2", id>>, appointment_id |-> id,
                type |-> "1_day_reminder_with_forms_check", send_date |-> appointment_date - 1,
                actions_required |-> "1) Have you filled the forms? 2) Is your visit confirmed? If not, provide cancellation reason"],
               [reminder_id |-> <<"R3", id>>, appointment_id |-> id,
                type |-> "2_hour_final_confirmation", send_date |-> appointment_date,
                send_time |-> (appointment_record.time.start - 60) % 1440,
                actions_required |-> "1) Have you filled the forms? 2) Confirm visit or provide cancellation reason immediately"] >>
          m1 == save_reminders(m, rows, env)
      IN Result(send_demo_reminders(m1, appointment_record, env), Resp("reminders"))

setup_reminders(m, appointment_record, env) ==
    \* strptime(appointment_record['date'], '%Y-%m-%d') and the split of the slot string
    IF ~ValidDate(appointment_record.date) \/ appointment_record.time = NoneSlot
    THEN Raise(m)
    ELSE
      LET appointment_date == DateOrdinal(appointment_record.date)
          id == appointment_record.appointment_id
          rows ==
            << [reminder_id |-> <<"R1", id>>, appointment_id |-> id,
                type |-> "7_day_reminder", send_date |-> appointment_date - 7,
                actions_required |-> "None - General reminder"],
               [reminder_id |-> <<"R2", id>>, appointment_id |-> id,
                type |-> "1_day_reminder_with_forms_check", send_date |-> appointment_date - 1,
                actions_required |-> "1) Have you filled the forms? 2) Is your visit confirmed? If not, provide cancellation reason"],
               [reminder_id |-> <<"R3", id>>, appointment_id |-> id,
                type |-> "2_hour_final_confirmation", send_date |-> appointment_date,
                send_time |-> (appointment_record.time.start - 120) % 1440,
                actions_required |-> "1) Have you filled the forms? 2) Confirm visit or provide cancellation reason immediately"] >>
          m1 == save_reminders(m, rows, env)
      IN Result(send_demo_reminders(m1, appointment_record, env), Resp("reminders"))

create_calendly_event(m, data, env) ==
    LET m1 == Call(m, "create_calendly_event") IN
    IF env.calendly_ok
    THEN [m1 EXCEPT !.calendar_bookings = Append(@, data @@ [status |-> "Scheduled"])]
    ELSE m1

export_to_excel(m, appointment_record, env) ==
    LET m1 == Call(m, "export_to_excel") IN
    IF env.export_ok THEN [m1 EXCEPT !.appointments = Append(@, appointment_record)] ELSE m1

send_confirmation_email(m, appointment_record, env) ==
    \* os.listdir('forms') raises when forms exists and cannot be listed
    IF ~env.forms_ok THEN Raise(m)
    ELSE Result(send_email(m, appointment_record.email, "Appointment Confirmation",
                           appointment_record.appointment_id, env.email_ok),
                Resp("email"))

----------------------------------------------------------------------------
(* SchedulingAgent: confirmation *)

AffirmativeTokens == {"yes", "confirm", "y", "ok", "sure"}
NegativeTokens == {"no", "cancel", "n"}

\* a confirmation that computes and persists the reminders before it sends
\* the confirmation email
confirm_appointment_reminders_first(m, env) ==
    LET cp == m.current_patient
        ad == m.appointment_data
        appointment_id == env.uuid
        Notified(r4) ==
          IF r4.exc THEN Result(r4.m, Resp("confirm_error"))
          ELSE Result(SetStage(r4.m, "greeting"), Resp("appointment_confirmed"))
        Reminded(r3, appointment_record) ==
          IF r3.exc THEN Result(r3.m, Resp("confirm_error"))
          ELSE IF Truthy(Get(cp, "email"))
          THEN Notified(send_confirmation_email(r3.m, appointment_record, env))
          ELSE Notified(Result(r3.m, Resp("no_email")))
        Booked(m2, appointment_record) ==
          Reminded(setup_reminders(m2, appointment_record, env), appointment_record)
        Assembled(appointment_record) ==
          Booked(create_calendly_event(
                     export_to_excel(m, appointment_record, env),
                     [patient_name |-> appointment_record.patient_name,
                      email |-> appointment_record.email,
                      date |-> appointment_record.date,
                      time |-> appointment_record.time,
                      doctor |-> appointment_record.doctor,
                      duration |-> appointment_record.duration], env),
                 appointment_record)
    IN Assembled(
          [appointment_id |-> appointment_id,
           patient_name |-> <<GetOr(cp, "first_name", ""), GetOr(cp, "last_name", "")>>,
           date |-> Get(ad, "date"),
           time |-> GetOr(ad, "selected_slot", NoneSlot),
           doctor |-> Get(ad, "doctor"),
           duration |-> GetOr(ad, "duration", 0),
           patient_type |-> IF Truthy(Get(cp, "is_returning")) THEN "Returning" ELSE "New",
           insurance |-> GetOr(cp, "insurance_company", "None"),
           email |-> GetOr(cp, "email", ""),
           phone |-> GetOr(cp, "phone", ""),
           status |-> "Confirmed"])

confirm_appointment(m, env) ==
    LET cp == m.current_patient
        ad == m.appointment_data
        appointment_id == env.uuid
        \* except Exception, around every step
        Reminded(r4) ==
          IF r4.exc THEN Result(r4.m, Resp("confirm_error"))
          ELSE Result(SetStage(r4.m, "greeting"), Resp("appointment_confirmed"))
        Notified(r3, appointment_record) ==
          IF r3.exc THEN Result(r3.m, Resp("confirm_error"))
          ELSE Reminded(setup_reminders(r3.m, appointment_record, env))
        Booked(m2, appointment_record) ==
          IF Truthy(Get(cp, "email"))
          THEN Notified(send_confirmation_email(m2, appointment_record, env),
                        appointment_record)
          ELSE Notified(Result(m2, Resp("no_email")), appointment_record)
        Assembled(appointment_record) ==
          Booked(create_calendly_event(
                     export_to_excel(m, appointment_record, env),
                     [patient_name |-> appointment_record.patient_name,
                      email |-> appointment_record.email,
                      date |-> appointment_record.date,
                      time |-> appointment_record.time,
                      doctor |-> appointment_record.doctor,
                      duration |-> appointment_record.duration], env),
                 appointment_record)
    IN Assembled(
          [appointment_id |-> appointment_id,
           patient_name |-> <<GetOr(cp, "first_name", ""), GetOr(cp, "last_name", "")>>,
           date |-> Get(ad, "date"),
           time |-> GetOr(ad, "selected_slot", NoneSlot),
           doctor |-> Get(ad, "doctor"),
           duration |-> GetOr(ad, "duration", 0),
           patient_type |-> IF Truthy(Get(cp, "is_returning")) THEN "Returning" ELSE "New",
           insurance |-> GetOr(cp, "insurance_company", "None"),
           email |-> GetOr(cp, "email", ""),
           phone |-> GetOr(cp, "phone", ""),
           status |-> "Confirmed"])

\* a confirmation that books on every answer that is not negative
handle_confirmation_unless_negative(m, user_input, env) ==
    IF lower(user_input) \in NegativeTokens
    THEN Result(SetStage(m, "scheduling"), Resp("no_problem"))
    ELSE confirm_appointment(m, env)

\* a confirmation that takes every unrecognised answer for a refusal
handle_confirmation_else_refuses(m, user_input, env) ==
    IF lower(user_input) \in AffirmativeTokens THEN confirm_appointment(m, env)
    ELSE Result(SetStage(m, "scheduling"), Resp("no_problem"))

handle_confirmation(m, user_input, env) ==
    IF lower(user_input) \in AffirmativeTokens THEN confirm_appointment(m, env)
    ELSE IF lower(user_input) \in NegativeTokens
    THEN Result(SetStage(m, "scheduling"), Resp("no_problem"))
    ELSE Result(m, Resp("please_confirm"))

generate_ai_response(m, user_input, env) ==
    LET m0 == Call(m, "generate_content") IN
    IF env.ai_llm.kind = "raise" THEN Result(m0, Resp("here_to_help"))
    ELSE IF env.ai_llm.text = "" THEN Result(m0, EmptyText)
    ELSE Result(m0, Resp("ai_text"))

process_user_input(m, user_input, stage_arg, env) ==
    IF stage_arg = "greeting" THEN handle_greeting(m, user_input, env)
    ELSE IF stage_arg = "patient_lookup" THEN handle_patient_lookup(m, user_input, env)
    ELSE IF stage_arg = "scheduling" THEN handle_scheduling(m, user_input, env)
    ELSE IF stage_arg = "insurance" THEN handle_insurance(m, user_input, env)
    ELSE IF stage_arg = "confirmation" THEN handle_confirmation(m, user_input, env)
    ELSE generate_ai_response(m, user_input, env)

----------------------------------------------------------------------------
(* main.py's MedicalSchedulingGraph and main()'s handling of one input *)

\* the most node visits that graph.invoke makes before it gives up with a
\* GraphRecursionError
MaxNodeVisits == 25

\* run_workflow's initial_state; visited lists the nodes that have run
main_initial_state(user_input) ==
    [messages |-> <<[role |-> "user", content |-> Resp(user_input)]>>,
     next_action |-> "greeting", visited |-> <<>>]

main_append(state, node, role, kind, next_action) ==
    [messages |-> Append(state.messages, [role |-> role, content |-> Resp(kind)]),
     next_action |-> next_action,
     visited |-> Append(state.visited, node)]

\* a greeting node that asks to be run again
main_greeting_node_stays(state) ==
    main_append(state, "greeting_agent", "assistant",
                IF state.messages # <<>> THEN "lg_greeting_processed" ELSE "lg_greeting_start",
                "greeting")

main_greeting_node(state) ==
    main_append(state, "greeting_agent", "assistant",
                IF state.messages # <<>> THEN "lg_greeting_processed" ELSE "lg_greeting_start",
                "lookup")

main_node(node, state) ==
    CASE node = "greeting_agent" -> main_greeting_node(state)
      [] node = "lookup_agent" ->
           main_append(state, node, "assistant", "lg_lookup", state.next_action)
      [] node = "scheduling_agent" ->
           main_append(state, node, "assistant", "lg_scheduling", state.next_action)
      [] node = "insurance_agent" ->
           main_append(state, node, "assistant", "lg_insurance", state.next_action)
      [] node = "confirmation_agent" ->
           main_append(state, node, "assistant", "lg_confirmation", state.next_action)
      [] node = "calendar_integration" ->
           main_append(state, node, "system", "lg_calendar", state.next_action)
      [] node = "email_notification" ->
           main_append(state, node, "system", "lg_email", state.next_action)
      [] OTHER ->
           main_append(state, node, "assistant", "langgraph_complete", state.next_action)

\* the edges: only greeting_agent has a conditional one
main_route(node, next_action) ==
    CASE node = "greeting_agent" ->
           IF next_action = "lookup" THEN "lookup_agent" ELSE "greeting_agent"
      [] node = "lookup_agent" -> "scheduling_agent"
      [] node = "scheduling_agent" -> "insurance_agent"
      [] node = "insurance_agent" -> "confirmation_agent"
      [] node = "confirmation_agent" -> "calendar_integration"
      [] node = "calendar_integration" -> "email_notification"
      [] node = "email_notification" -> "reminder_setup"
      [] OTHER -> "END"

\* graph.invoke from a node on: the final state, or the exception of a run
\* that takes too many steps
RECURSIVE graph_invoke(_, _, _)
graph_invoke(node, state, visits_left) ==
    IF node = "END" THEN [exc |-> FALSE, state |-> state]
    ELSE IF visits_left = 0 THEN [exc |-> TRUE, state |-> state]
    ELSE LET Routed(s) == graph_invoke(main_route(node, s.next_action), s, visits_left - 1)
         IN Routed(main_node(node, state))

\* the content of the last assistant message
RECURSIVE last_assistant(_)
last_assistant(messages) ==
    IF messages = <<>> THEN Resp("langgraph_completed_successfully")
    ELSE IF messages[Len(messages)].role = "assistant"
         THEN messages[Len(messages)].content
    ELSE last_assistant(SubSeq(messages, 1, Len(messages) - 1))

\* run_workflow, reached through process_with_langgraph: the nodes only
\* append messages to the graph's own state; the nodes that ran are recorded
\* in calls
process_with_langgraph(m, user_input) ==
    LET Returned(final) ==
          IF final.exc
          THEN Result([m EXCEPT !.calls = @ \o final.state.visited],
                      Resp("langgraph_demo_response"))
          ELSE Result([m EXCEPT !.calls = @ \o final.state.visited],
                      last_assistant(final.state.messages))
    IN Returned(graph_invoke("greeting_agent", main_initial_state(user_input),
                             MaxNodeVisits))

\* available_slots[slot_index]: a negative index counts from the end, and an
\* index outside the list raises IndexError
list_index(seq, i) ==
    IF 0 <= i /\ i < Len(seq) THEN [exc |-> FALSE, value |-> seq[i + 1]]
    ELSE IF i < 0 /\ -i <= Len(seq)
         THEN [exc |-> FALSE, value |-> seq[Len(seq) + i + 1]]
    ELSE [exc |-> TRUE, value |-> NoneSlot]

\* a range check that forgets the lower end
slot_index_valid_no_lower(slot_index, available_slots) ==
    slot_index < Len(available_slots)

slot_index_valid(slot_index, available_slots) ==
    0 <= slot_index /\ slot_index < Len(available_slots)

\* a selection that is off by one
select_slot_off_by_one(m, slot_index, available_slots) ==
    LET slot == list_index(available_slots, slot_index - 1) IN
    IF slot.exc THEN Raise(m)
    ELSE
      LET m1 == [m EXCEPT !.appointment_data = Update(@, [selected_slot |-> slot.value])]
      IN Result(SetStage(m1, "insurance"), Resp("slot_selected"))

\* a selection that moves on without storing the slot
select_slot_not_stored(m, slot_index, available_slots) ==
    LET slot == list_index(available_slots, slot_index) IN
    IF slot.exc THEN Raise(m)
    ELSE Result(SetStage(m, "insurance"), Resp("slot_selected"))

select_slot(m, slot_index, available_slots) ==
    LET slot == list_index(available_slots, slot_index) IN
    IF slot.exc THEN Raise(m)
    ELSE
      LET m1 == [m EXCEPT !.appointment_data = Update(@, [selected_slot |-> slot.value])]
      IN Result(SetStage(m1, "insurance"), Resp("slot_selected"))

main_input(m, user_input, use_langgraph, env) ==
    IF m.stage = "scheduling" /\ isdigit(user_input)
    THEN
      IF ~IntParses(user_input) THEN Raise(m)
      ELSE
        LET slot_index == int(user_input) - 1
            available_slots == GetOr(m.appointment_data, "available_slots", <<>>)
        IN IF slot_index_valid(slot_index, available_slots)
           THEN select_slot(m, slot_index, available_slots)
           ELSE Result(m, RespN("invalid_slot", Len(available_slots)))
    ELSE IF use_langgraph THEN process_with_langgraph(m, user_input)
    ELSE process_user_input(m, user_input, m.stage, env)

----------------------------------------------------------------------------
(* The environment of one input: what the language model returns for the  *)
(* handler's prompt, the uuid drawn, and which collaborator calls succeed *)

LLMRaise == [kind |-> "raise", json |-> EmptyDict, text |-> ""]
LLMNotJson == [kind |-> "not_json", json |-> EmptyDict, text |-> "Sure! Here you go"]
\* JSON that is no object: null, a number, a string
LLMNonDict == [kind |-> "non_dict", json |-> EmptyDict, text |-> "null"]
LLMDict(d) == [kind |-> "dict", json |-> d, text |-> "{...}"]
LLMText(t) == [kind |-> "text", json |-> EmptyDict, text |-> t]

Extracted(name, dob, doctor) ==
    [name |-> name, dob |-> dob, doctor |-> doctor, location |-> Null]

GreetingLLM ==
    {LLMRaise, LLMNotJson, LLMNonDict, LLMDict(EmptyDict),
     LLMDict(Extracted("John Doe", "1990-01-01", "Dr. Smith")),
     LLMDict(Extracted("Jane Smith", "1985-05-15", "Dr. Johnson")),
     LLMDict(Extracted("Ann Lee", "2000-02-02", "Dr. Smith")),
     LLMDict(Extracted("Ann Lee", Null, Null)),
     LLMDict(Extracted(Null, "2000-02-02", "Dr. Smith")),
     LLMDict(Extracted(Null, Null, Null)),
     LLMDict(Extracted(NonStr, "2000-02-02", "Dr. Smith"))}

DateLLM ==
    {LLMRaise, LLMText("none"), LLMText("next thursday"),
     LLMText("2025-01-09"), LLMText("2025-01-11"), LLMText("15-01-2025")}

InsuranceLLM ==
    {LLMRaise, LLMNotJson, LLMNonDict, LLMDict(EmptyDict),
     LLMDict([insurance_company |-> "Aetna", member_id |-> "A123"]),
     LLMDict([insurance_company |-> "Aetna", member_id |-> Null]),
     LLMDict([insurance_company |-> Null, member_id |-> Null])}

AiLLM == {LLMRaise, LLMText(""), LLMText("How can I help?")}

\* str(uuid.uuid4())[:8]: 32 random bits, here two values
Uuids == {"APT0000000A", "APT0000000B"}

BaseEnv ==
    [greeting_llm |-> LLMRaise, date_llm |-> LLMRaise, insurance_llm |-> LLMRaise,
     ai_llm |-> LLMRaise, uuid |-> "APT0000000A",
     export_ok |-> TRUE, calendly_ok |-> TRUE, forms_ok |-> TRUE,
     email_ok |-> TRUE, demo_ok |-> TRUE, save_ok |-> TRUE]

\* every outcome of the collaborators of a confirmation
ConfirmEnvs ==
    {[BaseEnv EXCEPT !.uuid = id, !.export_ok = o[1], !.calendly_ok = o[2], !.forms_ok = o[3],
                     !.email_ok = o[4], !.demo_ok = o[5], !.save_ok = o[6]] :
        id \in Uuids, o \in [1..6 -> BOOLEAN]}

\* every environment that the handler of a stage can meet
EnvsAt(s) ==
    CASE s = "greeting" -> {[BaseEnv EXCEPT !.greeting_llm = g] : g \in GreetingLLM}
      [] s = "patient_lookup" -> {BaseEnv}
      [] s = "scheduling" -> {[BaseEnv EXCEPT !.date_llm = d] : d \in DateLLM}
      [] s = "insurance" -> {[BaseEnv EXCEPT !.insurance_llm = i] : i \in InsuranceLLM}
      [] s = "confirmation" -> ConfirmEnvs
      [] OTHER -> {[BaseEnv EXCEPT !.ai_llm = a] : a \in AiLLM}

----------------------------------------------------------------------------
(* What the runs of the model draw from. The formulas below apply the     *)
(* handlers to every text of UserInputs and every environment of EnvsAt   *)
(* in each state reached; the runs themselves take one case per branch.   *)

RunGreetingLLM ==
    {LLMRaise,
     LLMDict(Extracted("John Doe", "1990-01-01", "Dr. Smith")),
     LLMDict(Extracted("Jane Smith", "1985-05-15", "Dr. Johnson")),
     LLMDict(Extracted("Ann Lee", "2000-02-02", "Dr. Smith")),
     LLMDict(Extracted("Ann Lee", Null, Null)),
     LLMDict(Extracted(NonStr, "2000-02-02", "Dr. Smith"))}

RunDateLLM == {LLMText("none"), LLMText("2025-01-09"), LLMText("15-01-2025")}

RunInsuranceLLM ==
    {LLMRaise, LLMDict([insurance_company |-> "Aetna", member_id |-> "A123"])}

\* all collaborators succeed, or the export fails and the SMTP server refuses
RunOutcomes == {[i \in 1..6 |-> i \notin failed] : failed \in {{}, {1, 4, 5}}}

\* the first uuid drawn is the first of the two, the next is either
RunUuids ==
    IF appointments = <<>> /\ reminders = <<>> /\ emails = <<>>
    THEN {"APT0000000A"} ELSE Uuids

\* the texts typed at each stage
Typed(s) ==
    CASE s = "scheduling" -> {"1", "7", SuperscriptTwo, "next thursday"}
      [] s = "insurance" -> {"none", "Aetna A123"}
      [] s = "confirmation" -> {"yes", "no", "maybe"}
      [] OTHER -> {"hello"}

----------------------------------------------------------------------------
(* The state machine *)

Machine ==
    [stage |-> stage, current_patient |-> current_patient,
     appointment_data |-> appointment_data, doctor_schedules_df |-> doctor_schedules_df,
     appointments |-> appointments, calendar_bookings |-> calendar_bookings,
     reminders |-> reminders, emails |-> emails, calls |-> <<>>, path |-> <<>>]

\* langgraph_agents.py's graph while no workflow runs
NoWorkflow ==
    [node |-> "idle", last_message |-> [role |-> "none", content |-> Resp("")],
     next_action |-> "greeting", stage |-> "greeting", visits |-> 0]

\* the browser sessions that confirm at the same time (one script thread each);
\* a single session writes its files within the handling of its input
Sessions == {"s1", "s2"}

\* History of the current booking conversation (no field of the program):
\* whether a slot list was stored in it, the duration its lookup announced,
\* and whether a slot list was offered since the stage last became scheduling
FreshConversation == [slots_stored |-> FALSE, lookup_duration |-> 0, selecting |-> FALSE]

\* the history once an input that started at stage from has had the result r
Observe(conv, from, r) ==
    IF r.response.kind = "appointment_confirmed" THEN FreshConversation
    ELSE [slots_stored |-> conv.slots_stored \/ r.response.kind = "slots_offered",
          lookup_duration |->
             IF r.response.kind \in {"welcome_back", "not_in_system"}
             THEN r.response.n ELSE conv.lookup_duration,
          selecting |->
             /\ r.m.stage = "scheduling"
             /\ \/ r.response.kind = "slots_offered"
                \/ from = "scheduling" /\ conv.selecting]

Init ==
    /\ stage = "greeting"
    /\ current_patient = EmptyDict
    /\ appointment_data = EmptyDict
    /\ conversation_history = <<>>
    /\ doctor_schedules_df \in BOOLEAN
    /\ appointments = <<>>
    /\ calendar_bookings = <<>>
    /\ reminders = <<>>
    /\ emails = <<>>
    /\ response = Resp("start")
    /\ uncaught = FALSE
    /\ conversation = FreshConversation
    /\ inputs = 0
    /\ record_history = FALSE
    /\ pc = [s \in Sessions |-> "done"]
    /\ new_df = [s \in Sessions |-> <<>>]
    /\ agent_state = NoWorkflow

\* main(): one chat input, from its append to the history to the rerun
Step(user_input, use_langgraph, env) ==
    LET user_entry == [role |-> "user", content |-> Resp(user_input)]
        Rerun(r) ==
          /\ stage' = r.m.stage
          /\ current_patient' = r.m.current_patient
          /\ appointment_data' = r.m.appointment_data
          /\ appointments' = r.m.appointments
          /\ calendar_bookings' = r.m.calendar_bookings
          /\ reminders' = r.m.reminders
          /\ emails' = r.m.emails
          /\ response' = r.response
          /\ uncaught' = r.exc
          /\ conversation_history' =
                IF ~record_history THEN conversation_history
                ELSE IF r.exc THEN Append(conversation_history, user_entry)
                ELSE Append(Append(conversation_history, user_entry),
                            [role |-> "assistant", content |-> r.response])
          /\ conversation' = Observe(conversation, stage, r)
    IN
    /\ record_history => Len(conversation_history) + 2 <= MaxHistory
    /\ inputs < MaxInputs
    /\ Rerun(main_input(Machine, user_input, use_langgraph, env))
    /\ inputs' = inputs + 1
    /\ UNCHANGED <<doctor_schedules_df, record_history, pc, new_df, agent_state>>

GreetingInput ==
    /\ stage = "greeting"
    /\ \E u \in Typed(stage), g \in RunGreetingLLM :
          Step(u, FALSE, [BaseEnv EXCEPT !.greeting_llm = g])

LookupInput ==
    /\ stage = "patient_lookup"
    /\ \E u \in Typed(stage) : Step(u, FALSE, BaseEnv)

SlotSelection ==
    /\ stage = "scheduling"
    /\ \E u \in Typed(stage), lg \in BOOLEAN : isdigit(u) /\ Step(u, lg, BaseEnv)

SchedulingInput ==
    /\ stage = "scheduling"
    /\ \E u \in Typed(stage), d \in RunDateLLM :
          ~isdigit(u) /\ Step(u, FALSE, [BaseEnv EXCEPT !.date_llm = d])

InsuranceInput ==
    /\ stage = "insurance"
    /\ \E u \in Typed(stage), i \in RunInsuranceLLM :
          Step(u, FALSE, [BaseEnv EXCEPT !.insurance_llm = i])

ConfirmationInput ==
    /\ stage = "confirmation"
    /\ \E u \in Typed(stage), id \in RunUuids, o \in RunOutcomes :
          Step(u, FALSE, [BaseEnv EXCEPT !.uuid = id, !.export_ok = o[1],
                                         !.calendly_ok = o[2], !.forms_ok = o[3],
                                         !.email_ok = o[4], !.demo_ok = o[5],
                                         !.save_ok = o[6]])

\* an input with the "Use LangGraph Workflow" box ticked
LangGraphInput ==
    \E u \in Typed(stage) : ~(stage = "scheduling" /\ isdigit(u)) /\ Step(u, TRUE, BaseEnv)

\* the "Reset Conversation" button
ResetConversation ==
    /\ stage' = "greeting"
    /\ current_patient' = EmptyDict
    /\ appointment_data' = EmptyDict
    /\ conversation_history' = <<>>
    /\ response' = Resp("conversation_reset")
    /\ uncaught' = FALSE
    /\ conversation' = FreshConversation
    /\ UNCHANGED <<doctor_schedules_df, appointments, calendar_bookings, reminders,
                   emails, inputs, record_history, pc, new_df, agent_state>>

Next ==
    \/ GreetingInput
    \/ LookupInput
    \/ SlotSelection
    \/ SchedulingInput
    \/ InsuranceInput
    \/ ConfirmationInput
    \/ LangGraphInput
    \/ ResetConversation

Spec == Init /\ [][Next]_vars

----------------------------------------------------------------------------
(* Properties. Each applies main()'s handling of one input, in every state  *)
(* reached, to every text of UserInputs and every environment the handler *)
(* of the stage can meet.                                                  *)

Affirms(u) == lower(u) \in AffirmativeTokens

\* the environments that an input's handler consults in the current state:
\* the slot selection, the graph and a confirmation that does not book read none
EnvsFor(u, lg) ==
    IF lg \/ (stage = "scheduling" /\ isdigit(u)) THEN {BaseEnv}
    ELSE IF stage = "confirmation" /\ ~Affirms(u) THEN {BaseEnv}
    ELSE EnvsAt(stage)

Range(seq) == {seq[i] : i \in 1..Len(seq)}

OfferedSlots == GetOr(appointment_data, "available_slots", <<>>)

\* C1: at every stage and for every input text, extractor result and
\* collaborator outcome, handling the input raises no uncaught error, returns
\* a non-empty response and leaves the stage one of the defined stages.
C1_EveryInputAnswered ==
    \A u \in UserInputs, lg \in BOOLEAN : \A env \in EnvsFor(u, lg) :
        LET Answered(r) ==
              ~r.exc /\ NonEmpty(r.response) /\ r.m.stage \in Stages
        IN Answered(main_input(Machine, u, lg, env))

\* The stage of the transition table that the session is in: the code's
\* 'scheduling' is Scheduling until a slot list is offered and SlotSelection after
TableStage ==
    IF stage = "scheduling" /\ conversation.selecting THEN "slot_selection" ELSE stage

\* Booked is passed through within the input that books: confirmation to
\* greeting stands for Confirmation to Booked to Greeting
TableEdges ==
    {<<"greeting", "patient_lookup">>, <<"patient_lookup", "scheduling">>,
     <<"scheduling", "slot_selection">>, <<"slot_selection", "insurance">>,
     <<"insurance", "confirmation">>, <<"confirmation", "greeting">>,
     <<"confirmation", "scheduling">>}

\* the changes of stage that handling one input makes, in table stages
StageChanges(r) ==
    {<<IF i = 1 THEN TableStage ELSE r.m.path[i - 1], r.m.path[i]>> :
        i \in 1..Len(r.m.path)}
    \cup (IF TableStage = "scheduling" /\ r.response.kind = "slots_offered"
          THEN {<<"scheduling", "slot_selection">>} ELSE {})

\* C2: over any sequence of inputs, every change of stage that an input makes
\* is an edge of the transition table; no other change of stage occurs.
C2_StageFollowsTable ==
    \A u \in UserInputs, lg \in BOOLEAN : \A env \in EnvsFor(u, lg) :
        LET OnTable(r) == StageChanges(r) \subseteq TableEdges
        IN OnTable(main_input(Machine, u, lg, env))

\* C3: whenever selected_slot is set, it is an element of the available_slots
\* list most recently stored in the same booking conversation.
C3_SelectedFromOfferedSlots ==
    Has(appointment_data, "selected_slot") =>
        /\ conversation.slots_stored
        /\ appointment_data["selected_slot"] \in Range(OfferedSlots)

\* C4: once the lookup of a conversation has decided the duration, the
\* session's duration has that value at every later stage, and so has the
\* record that a confirmation assembles.
C4_DurationKept ==
    conversation.lookup_duration # 0 =>
        /\ Has(appointment_data, "duration") =>
              appointment_data["duration"] = conversation.lookup_duration
        /\ stage = "confirmation" =>
              LET Recorded(r) ==
                    \A i \in (Len(appointments) + 1)..Len(r.m.appointments) :
                        r.m.appointments[i].duration = conversation.lookup_duration
              IN Recorded(main_input(Machine, "yes", FALSE, BaseEnv))

\* C5: after a booking completes, the session is that of a fresh conversation:
\* the stage is greeting and no patient or appointment field of the booking remains.
C5_FreshAfterBooking ==
    response.kind = "appointment_confirmed" =>
        /\ stage = "greeting"
        /\ current_patient = EmptyDict
        /\ appointment_data = EmptyDict

\* the steps that follow the assembly of the record, by the call each makes
DownstreamCalls ==
    {"export_to_excel", "create_calendly_event", "save_reminders"}
    \cup (IF Truthy(Get(current_patient, "email")) THEN {"send_email"} ELSE {})

\* C6: for every combination of success and failure of the downstream steps,
\* an affirmative input at the confirmation stage completes the booking and
\* attempts every step.
C6_BookingNeverBlocked ==
    stage = "confirmation" =>
        \A env \in ConfirmEnvs :
            LET Completed(r) ==
                  /\ r.response.kind = "appointment_confirmed"
                  /\ r.m.stage = "greeting"
                  /\ DownstreamCalls \subseteq Range(r.m.calls)
            IN Completed(main_input(Machine, "yes", FALSE, env))

\* C7: when persisting the record succeeds and sending the confirmation
\* notification fails, the booking still completes and the record is in the
\* persisted collection.
C7_ConfirmationIndependence ==
    (stage = "confirmation" /\ Truthy(Get(current_patient, "email"))) =>
        \A env \in ConfirmEnvs :
            (env.export_ok /\ (~env.email_ok \/ ~env.forms_ok)) =>
                LET Kept(r) ==
                      /\ r.response.kind = "appointment_confirmed"
                      /\ r.m.stage = "greeting"
                      /\ Len(r.m.appointments) = Len(appointments) + 1
                      /\ r.m.appointments[Len(r.m.appointments)].appointment_id = env.uuid
                IN Kept(main_input(Machine, "yes", FALSE, env))

SideEffectCalls ==
    {"export_to_excel", "create_calendly_event", "send_email", "save_reminders"}

\* C8: persisting, calendar booking, email sending and reminder persisting
\* happen only while an affirmative input at the confirmation stage is handled.
C8_SideEffectsOnlyOnConfirm ==
    \A u \in UserInputs, lg \in BOOLEAN : \A env \in EnvsFor(u, lg) :
        LET Quiet(r) ==
              /\ Range(r.m.calls) \cap SideEffectCalls = {}
              /\ r.m.appointments = appointments
              /\ r.m.calendar_bookings = calendar_bookings
              /\ r.m.emails = emails
              /\ r.m.reminders = reminders
        IN (stage = "confirmation" /\ Affirms(u) /\ ~lg)
           \/ Quiet(main_input(Machine, u, lg, env))

C8_Witness ==
    /\ response.kind = "appointment_confirmed"
    /\ appointments # <<>> /\ calendar_bookings # <<>>
    /\ emails # <<>> /\ reminders # <<>>

\* C9: at slot selection with N slots on offer, an input that parses as an
\* integer n with 1 <= n <= N sets selected_slot to the n-th slot offered
\* (index n-1 from zero), changes no other appointment field and moves the
\* stage to insurance.
C9_ValidSlotSelected ==
    stage = "scheduling" =>
        \A u \in UserInputs, lg \in BOOLEAN :
            (IntParses(u) /\ isdigit(u) /\ int(u) \in 1..Len(OfferedSlots)) =>
                LET Selected(r) ==
                      /\ ~r.exc
                      /\ r.m.stage = "insurance"
                      /\ r.m.appointment_data =
                            Update(appointment_data,
                                   [selected_slot |-> OfferedSlots[int(u)]])
                      /\ r.m.current_patient = current_patient
                IN Selected(main_input(Machine, u, lg, BaseEnv))

C9_Witness ==
    /\ stage = "insurance"
    /\ response.kind = "slot_selected"
    /\ Len(OfferedSlots) >= 3
    /\ Has(appointment_data, "selected_slot")
    /\ appointment_data["selected_slot"] = OfferedSlots[1]

\* C10: at slot selection with N slots on offer (N may be 0), an integer
\* input outside 1..N, zero included, is rejected: stage and appointment are
\* unchanged and the response names the range "between 1 and N".
C10_InvalidSlotRejected ==
    stage = "scheduling" =>
        \A u \in UserInputs, lg \in BOOLEAN :
            (IntParses(u) /\ isdigit(u) /\ int(u) \notin 1..Len(OfferedSlots)) =>
                LET Rejected(r) ==
                      /\ ~r.exc
                      /\ r.m.stage = "scheduling"
                      /\ r.m.appointment_data = appointment_data
                      /\ r.m.current_patient = current_patient
                      /\ r.response = RespN("invalid_slot", Len(OfferedSlots))
                IN Rejected(main_input(Machine, u, lg, BaseEnv))

C10_Witness ==
    /\ stage = "scheduling"
    /\ Len(OfferedSlots) > 0
    /\ response = RespN("invalid_slot", Len(OfferedSlots))

\* the appointment fields that a rejected selection must leave alone
AppointmentFields == {"date", "doctor", "duration", "available_slots", "selected_slot"}

SameFields(d, e, keys) ==
    \A k \in keys : Has(d, k) = Has(e, k) /\ (Has(d, k) => d[k] = e[k])

\* a text that is no non-negative integer: free text, a negative number, a
\* digit that int() rejects
NonInteger(u) == ~(IntParses(u) /\ int(u) >= 0)

\* C11: while a slot list has been offered and a selection is awaited, an
\* input that is no integer (negative numbers and free text included) is
\* rejected: nothing is raised, the stage stays at slot selection and date,
\* doctor, duration, available_slots and selected_slot are unchanged.
C11_NonIntegerRejected ==
    (stage = "scheduling" /\ conversation.selecting) =>
        \A u \in UserInputs : \A env \in EnvsFor(u, FALSE) :
            NonInteger(u) =>
                LET Rejected(r) ==
                      /\ ~r.exc
                      /\ r.m.stage = "scheduling"
                      /\ SameFields(r.m.appointment_data, appointment_data,
                                    AppointmentFields)
                IN Rejected(main_input(Machine, u, FALSE, env))

\* the patient fields with which the lookup runs when an input is handled
\* at the greeting or the lookup stage (no fields when it does not run)
PatientAtLookup(env) ==
    LET llm == env.greeting_llm
        p == IF stage = "patient_lookup" THEN current_patient
             ELSE IF stage = "greeting" /\ llm.kind = "dict"
                     /\ \A k \in {"name", "dob", "doctor"} : Truthy(Get(llm.json, k))
             THEN Update(current_patient, llm.json)
             ELSE EmptyDict
    IN IF Truthy(Get(p, "name")) /\ Truthy(Get(p, "dob")) THEN p ELSE EmptyDict

\* the record that the directory holds for these fields (none: EmptyDict)
DirectoryRecord(p) ==
    IF p = EmptyDict \/ ~IsStr(p["name"]) THEN EmptyDict
    ELSE lookup_patient(p["name"], p["dob"]).record

DurationFor(flag) == IF Truthy(flag) THEN 30 ELSE 60

\* the duration that a date given at the scheduling stage stores follows the flag
DurationFollowsFlag ==
    stage = "scheduling" =>
        \A env \in EnvsAt(stage) :
            LET Stored(r) ==
                  r.response.kind = "slots_offered" =>
                      r.m.appointment_data["duration"] =
                          DurationFor(Get(current_patient, "is_returning"))
            IN Stored(main_input(Machine, "next thursday", FALSE, env))

C13_NotFoundIsNew ==
    /\ \A env \in EnvsAt(stage) :
          LET p == PatientAtLookup(env)
              New(r) ==
                /\ ~r.exc
                /\ r.m.stage = "scheduling"
                /\ r.m.current_patient = Update(p, [is_returning |-> "False"])
                /\ r.response = RespN("not_in_system", 60)
          IN (p # EmptyDict /\ IsStr(p["name"]) /\ DirectoryRecord(p) = EmptyDict)
                => New(main_input(Machine, "hello", FALSE, env))
    /\ (stage = "scheduling" /\ response.kind = "not_in_system") =>
          /\ Get(current_patient, "is_returning") = "False"
          /\ \A env \in EnvsAt(stage) :
                LET Stored(r) ==
                      r.response.kind = "slots_offered" =>
                          r.m.appointment_data["duration"] = 60
                IN Stored(main_input(Machine, "next thursday", FALSE, env))

C13_Witness ==
    /\ stage = "scheduling"
    /\ response = RespN("not_in_system", 60)
    /\ Get(current_patient, "name") = "Ann Lee"
    /\ Get(current_patient, "is_returning") = "False"

\* C14: a patient field that holds a non-null value is never replaced by
\* null: whatever an input's extraction or directory merge returns, every
\* field that was non-null before the input is non-null after it.
C14_NoFieldNulled ==
    \A u \in UserInputs : \A env \in EnvsFor(u, FALSE) :
        LET Kept(r) ==
              \A k \in DOMAIN current_patient :
                  current_patient[k] # Null =>
                      Has(r.m.current_patient, k) /\ r.m.current_patient[k] # Null
        IN Kept(main_input(Machine, u, FALSE, env))

\* the directory lookup runs with these fields and raises
LookupFails(p) == p # EmptyDict /\ lookup_patient(p["name"], p["dob"]).exc

\* C15: when the directory lookup raises, the session behaves as for a
\* patient that is not found: not returning, duration 60, stage scheduling,
\* a normal response and nothing uncaught, chained from the greeting and on
\* an input at the lookup stage alike.
C15_LookupFailureIsNotFound ==
    \A env \in EnvsAt(stage) :
        LET p == PatientAtLookup(env)
            AsNotFound(r) ==
              /\ ~r.exc
              /\ r.m.stage = "scheduling"
              /\ Get(r.m.current_patient, "is_returning") = "False"
              /\ r.response = RespN("not_in_system", 60)
        IN LookupFails(p) => AsNotFound(main_input(Machine, "hello", FALSE, env))

\* C16: at the insurance stage every input handled by the agent, whatever
\* the extractor returns or however it fails, moves the stage to
\* confirmation within the same input; the stage never re-prompts.
C16_InsuranceNeverBlocks ==
    stage = "insurance" =>
        \A u \in UserInputs : \A env \in EnvsAt(stage) :
            LET Moved(r) ==
                  /\ ~r.exc
                  /\ r.m.stage = "confirmation"
                  /\ r.m.path = <<"confirmation">>
                  /\ r.response.kind = "confirmation_summary"
            IN Moved(main_input(Machine, u, FALSE, env))

C16_Witness ==
    /\ stage = "confirmation"
    /\ response.kind = "confirmation_summary"
    /\ Get(current_patient, "insurance_company") = "Aetna A123"
    /\ Get(current_patient, "member_id") = "Pending"

\* the texts that mean no insurance once lowered
NoInsuranceText(u) ==
    u \in {"none", "NONE", "no", "No", "no insurance"}

\* C17: at the insurance stage an input equal, whatever its case, to none,
\* no or no insurance sets the company and the member id to "None", calls
\* no extractor and moves the stage to confirmation.
C17_NoInsuranceToken ==
    stage = "insurance" =>
        \A u \in UserInputs : \A env \in EnvsAt(stage) :
            NoInsuranceText(u) =>
                LET Declined(r) ==
                      /\ ~r.exc
                      /\ r.m.stage = "confirmation"
                      /\ r.m.current_patient =
                            Update(current_patient,
                                   [insurance_company |-> "None", member_id |-> "None"])
                      /\ "generate_content" \notin Range(r.m.calls)
                IN Declined(main_input(Machine, u, FALSE, env))

C17_Witness ==
    /\ stage = "confirmation"
    /\ response.kind = "confirmation_summary"
    /\ Get(current_patient, "insurance_company") = "None"
    /\ Get(current_patient, "member_id") = "None"

\* the extraction holds both a company and a member id
YieldsInsurance(llm) ==
    /\ llm.kind = "dict"
    /\ Truthy(Get(llm.json, "insurance_company"))
    /\ Truthy(Get(llm.json, "member_id"))

\* C18: at the insurance stage, when the input is no no-insurance text and
\* the extractor does not yield both a company and a member id (it raises,
\* returns no JSON object, or returns null fields), the patient gets the raw
\* input text as company and "Pending" as member id.
C18_InsuranceFallback ==
    stage = "insurance" =>
        \A u \in UserInputs : \A env \in EnvsAt(stage) :
            (~NoInsuranceText(u) /\ ~YieldsInsurance(env.insurance_llm)) =>
                LET Pending(r) ==
                      /\ Get(r.m.current_patient, "insurance_company") = u
                      /\ Get(r.m.current_patient, "member_id") = "Pending"
                IN Pending(main_input(Machine, u, FALSE, env))

\* C19: at the confirmation stage an input of the negative set (no, n,
\* cancel, whatever the case) moves the stage to scheduling and clears
\* selected_slot from the appointment.
C19_NegativeClearsSlot ==
    stage = "confirmation" =>
        \A u \in UserInputs :
            lower(u) \in {"no", "n", "cancel"} =>
                LET Cleared(r) ==
                      /\ r.m.stage = "scheduling"
                      /\ ~Has(r.m.appointment_data, "selected_slot")
                IN Cleared(main_input(Machine, u, FALSE, BaseEnv))

\* C20: at the confirmation stage an input of the affirmative set (yes, y,
\* confirm, ok, sure, whatever the case) completes the booking when the
\* collaborators work: exactly one record, with status Confirmed, is
\* appended to the persisted appointments, three reminders are generated for
\* it, and the stage becomes greeting.
C20_AffirmativeBooks ==
    stage = "confirmation" =>
        \A u \in UserInputs, id \in Uuids :
            lower(u) \in {"yes", "y", "confirm", "ok", "sure"} =>
                LET Done(r) ==
                      /\ r.m.stage = "greeting"
                      /\ Len(r.m.appointments) = Len(appointments) + 1
                      /\ SubSeq(r.m.appointments, 1, Len(appointments)) = appointments
                      /\ r.m.appointments[Len(r.m.appointments)].status = "Confirmed"
                      /\ r.m.appointments[Len(r.m.appointments)].appointment_id = id
                      /\ Len(r.m.reminders) = Len(reminders) + 3
                      /\ \A i \in (Len(reminders) + 1)..Len(r.m.reminders) :
                            r.m.reminders[i].appointment_id = id
                IN Done(main_input(Machine, u, FALSE, [BaseEnv EXCEPT !.uuid = id]))

\* C21: at the confirmation stage an input that, lowered, is in neither the
\* affirmative nor the negative set gets the yes/no re-prompt; stage, patient
\* and appointment are unchanged and no collaborator is called.
C21_UnrecognisedReprompts ==
    stage = "confirmation" =>
        \A u \in UserInputs : \A env \in EnvsFor(u, FALSE) :
            (lower(u) \notin AffirmativeTokens \cup NegativeTokens) =>
                LET Reprompted(r) ==
                      /\ ~r.exc
                      /\ r.response = Resp("please_confirm")
                      /\ r.m.stage = stage /\ r.m.path = <<>>
                      /\ r.m.current_patient = current_patient
                      /\ r.m.appointment_data = appointment_data
                      /\ r.m.calls = <<>>
                      /\ r.m.appointments = appointments
                      /\ r.m.calendar_bookings = calendar_bookings
                      /\ r.m.emails = emails
                      /\ r.m.reminders = reminders
                IN Reprompted(main_input(Machine, u, FALSE, env))

C21_Witness ==
    /\ stage = "confirmation"
    /\ response = Resp("please_confirm")
    /\ Has(appointment_data, "selected_slot")

\* the calls of a confirmation that runs to its end, in the order of the
\* steps: persist the record, book the calendar, send the confirmation email
\* (if the patient has an email), persist the reminders, send the demo reminders
ConfirmationOrder ==
    LET mail == Truthy(Get(current_patient, "email")) IN
    <<"export_to_excel", "create_calendly_event">>
    \o (IF mail THEN <<"send_email">> ELSE <<>>)
    \o <<"save_reminders">>
    \o (IF mail THEN <<"send_email", "send_email", "send_email">> ELSE <<>>)

IsPrefix(s, t) == Len(s) <= Len(t) /\ SubSeq(t, 1, Len(s)) = s

\* C22: within one confirmation the steps run in a fixed order, each after
\* the one before it has returned: the record is assembled, then persisted,
\* then the calendar booking is made, then the confirmation email is sent (if
\* any), then the reminders are computed and persisted.
C22_StepsInOrder ==
    stage = "confirmation" =>
        \A env \in ConfirmEnvs :
            LET Ordered(r) ==
                  /\ IsPrefix(r.m.calls, ConfirmationOrder)
                  /\ Len(r.m.calls) >= 2
                  /\ r.response.kind = "appointment_confirmed" =>
                        r.m.calls = ConfirmationOrder
                  \* what is persisted and booked is the record assembled first
                  /\ \A i \in (Len(appointments) + 1)..Len(r.m.appointments) :
                        /\ r.m.appointments[i].appointment_id = env.uuid
                        /\ r.m.appointments[i].date = Get(appointment_data, "date")
                  /\ \A i \in (Len(calendar_bookings) + 1)..Len(r.m.calendar_bookings) :
                        r.m.calendar_bookings[i].date = Get(appointment_data, "date")
                  \* the confirmation email precedes the demo reminders
                  /\ \A i \in (Len(emails) + 1)..Len(r.m.emails) :
                        (r.m.emails[i].subject = "Appointment Confirmation")
                            => i = Len(emails) + 1
            IN Ordered(main_input(Machine, "yes", FALSE, env))

C22_Witness ==
    /\ response.kind = "appointment_confirmed"
    /\ Len(emails) >= 4
    /\ emails[1].subject = "Appointment Confirmation"
    /\ emails[4].subject = "Demo: 2-Hour Final Confirmation"
    /\ Len(appointments) >= 1 /\ Len(calendar_bookings) >= 1 /\ Len(reminders) >= 3

\* the extraction of a greeting lacks one of name, date of birth and doctor
MissingField(llm) ==
    llm.kind # "dict" \/ \E k \in {"name", "dob", "doctor"} : ~Truthy(Get(llm.json, k))

\* the date extractor fails or returns what is no date
NoParseableDate(llm) == llm.kind = "raise" \/ ~ValidDate(llm.text)

\* an input that its stage takes for invalid: a greeting with a missing field,
\* a scheduling text without a parseable date, a slot number outside the
\* list, a confirmation answer that is neither yes nor no
InvalidInput(u, env) ==
    \/ stage = "greeting" /\ MissingField(env.greeting_llm)
    \/ stage = "scheduling" /\ ~isdigit(u) /\ NoParseableDate(env.date_llm)
    \/ stage = "scheduling" /\ isdigit(u)
          /\ ~(IntParses(u) /\ int(u) \in 1..Len(OfferedSlots))
    \/ stage = "confirmation" /\ lower(u) \notin AffirmativeTokens \cup NegativeTokens

\* C23: an invalid input leaves the patient and the appointment data as they
\* were, in every state reached, hence however often it is repeated.
C23_InvalidInputChangesNothing ==
    \A u \in UserInputs : \A env \in EnvsFor(u, FALSE) :
        InvalidInput(u, env) =>
            LET Same(r) ==
                  /\ r.m.current_patient = current_patient
                  /\ r.m.appointment_data = appointment_data
            IN Same(main_input(Machine, u, FALSE, env))

\* the fields that an extraction lacks, and those that a response asks for
MissingFrom(llm) ==
    IF llm.kind # "dict" THEN {"name", "dob", "doctor"}
    ELSE {k \in {"name", "dob", "doctor"} : ~Truthy(Get(llm.json, k))}

AskedFor(resp) ==
    IF resp = HelloGeneric THEN {"name", "dob", "doctor"}
    ELSE IF resp.kind = "provide_missing" THEN resp.missing
    ELSE {}

\* C24: an input at the greeting stage leaves the stage exactly when its
\* extraction holds a non-empty name, date of birth and doctor; then the
\* lookup runs within the same input and the stage ends at scheduling;
\* otherwise the stage stays greeting and the response asks for exactly the
\* fields that the extraction lacks.
C24_GreetingAdvancesWhenComplete ==
    stage = "greeting" =>
        \A u \in UserInputs : \A env \in EnvsAt(stage) :
            LET missing == MissingFrom(env.greeting_llm)
                Advanced(r) ==
                  /\ ~r.exc
                  /\ IF missing = {}
                     THEN /\ "lookup_patient" \in Range(r.m.calls)
                          /\ r.m.stage = "scheduling"
                     ELSE /\ r.m.stage = "greeting"
                          /\ r.m.path = <<>>
                          /\ AskedFor(r.response) = missing
            IN Advanced(main_input(Machine, u, FALSE, env))

\* C25: at the scheduling stage a text that is no number and for which the
\* date extractor fails or returns no parseable date gets a re-prompt; the
\* stage stays scheduling and the appointment data, the slots offered and
\* the slot selected included, are unchanged.
C25_NoDateReprompts ==
    stage = "scheduling" =>
        \A u \in UserInputs : \A env \in EnvsAt(stage) :
            (~isdigit(u) /\ NoParseableDate(env.date_llm)) =>
                LET Reprompted(r) ==
                      /\ ~r.exc
                      /\ r.response.kind \in {"date_not_understood", "provide_date"}
                      /\ r.m.stage = "scheduling"
                      /\ r.m.appointment_data = appointment_data
                IN Reprompted(main_input(Machine, u, FALSE, env))

\* C26: no two persisted appointment records carry the same appointment id,
\* neither among the records persisted so far nor once a further
\* confirmation has persisted its record.
C26_UniqueAppointmentIds ==
    /\ \A i, j \in 1..Len(appointments) :
          i # j => appointments[i].appointment_id # appointments[j].appointment_id
    /\ stage = "confirmation" =>
          \A env \in ConfirmEnvs :
              LET Unique(r) ==
                    \A i, j \in 1..Len(r.m.appointments) :
                        i # j => r.m.appointments[i].appointment_id
                                     # r.m.appointments[j].appointment_id
              IN Unique(main_input(Machine, "yes", FALSE, env))

ActionsOf7Day == "None - General reminder"
ActionsOf1Day ==
    "1) Have you filled the forms? 2) Is your visit confirmed? If not, provide cancellation reason"
ActionsOf2Hour ==
    "1) Have you filled the forms? 2) Confirm visit or provide cancellation reason immediately"

\* an instant, in minutes: a day and a time of that day
Instant(day, time) == day * 1440 + time

\* C27: a completed booking generates exactly three reminder descriptors for
\* its appointment id (persisted when the reminder file can be written): a
\* 7-day one sent on the appointment date minus 7 days, a 1-day one sent on
\* the date minus 1 day and a 2-hour one sent at the start of the slot minus
\* 2 hours, each with its fixed required-action text.
C27_ThreeReminders ==
    stage = "confirmation" =>
        \A env \in ConfirmEnvs :
            LET date == Get(appointment_data, "date")
                slot == GetOr(appointment_data, "selected_slot", NoneSlot)
                Generated(new) ==
                  IF ~env.save_ok THEN new = <<>>
                  ELSE
                    /\ Len(new) = 3
                    /\ \A i \in 1..3 : new[i].appointment_id = env.uuid
                    /\ new[1].type = "7_day_reminder"
                    /\ new[1].send_date = DateOrdinal(date) - 7
                    /\ new[1].actions_required = ActionsOf7Day
                    /\ new[2].type = "1_day_reminder_with_forms_check"
                    /\ new[2].send_date = DateOrdinal(date) - 1
                    /\ new[2].actions_required = ActionsOf1Day
                    /\ new[3].type = "2_hour_final_confirmation"
                    /\ Instant(new[3].send_date, new[3].send_time)
                          = Instant(DateOrdinal(date), slot.start) - 120
                    /\ new[3].actions_required = ActionsOf2Hour
                Reminded(r) ==
                  IF r.response.kind = "appointment_confirmed"
                  THEN /\ ValidDate(date) /\ slot # NoneSlot
                       /\ Generated(SubSeq(r.m.reminders, Len(reminders) + 1,
                                           Len(r.m.reminders)))
                  ELSE r.m.reminders = reminders
            IN Reminded(main_input(Machine, "yes", FALSE, env))

C27_Witness ==
    /\ response.kind = "appointment_confirmed"
    /\ Len(reminders) = 3
    /\ reminders[1].send_date = DateOrdinal("2025-01-09") - 7
    /\ reminders[2].send_date = DateOrdinal("2025-01-09") - 1
    /\ reminders[3].send_date = DateOrdinal("2025-01-09")
    /\ reminders[3].send_time \in {HM(7, 0), HM(7, 30)}

\* C28: a confirmation sends the confirmation email exactly when the patient
\* has a non-empty email; without one no send is attempted, neither of the
\* confirmation nor of a demo reminder, and the booking still completes.
C28_EmailIffAddress ==
    stage = "confirmation" =>
        \A u \in UserInputs : \A env \in ConfirmEnvs :
            LET mail == Truthy(Get(current_patient, "email"))
                Mailed(r) ==
                  IF mail
                  THEN /\ "send_email" \in Range(r.m.calls)
                       /\ env.email_ok =>
                             /\ Len(r.m.emails) > Len(emails)
                             /\ r.m.emails[Len(emails) + 1] =
                                   [to |-> current_patient["email"],
                                    subject |-> "Appointment Confirmation",
                                    appointment_id |-> env.uuid]
                  ELSE /\ "send_email" \notin Range(r.m.calls)
                       /\ r.m.emails = emails
                       /\ r.response.kind = "appointment_confirmed"
                       /\ r.m.stage = "greeting"
            IN Affirms(u) => Mailed(main_input(Machine, u, FALSE, env))

\* The session with the conversation history recorded
InitHistory ==
    /\ stage = "greeting"
    /\ current_patient = EmptyDict
    /\ appointment_data = EmptyDict
    /\ conversation_history = <<>>
    /\ doctor_schedules_df \in BOOLEAN
    /\ appointments = <<>>
    /\ calendar_bookings = <<>>
    /\ reminders = <<>>
    /\ emails = <<>>
    /\ response = Resp("start")
    /\ uncaught = FALSE
    /\ conversation = FreshConversation
    /\ inputs = 0
    /\ record_history = TRUE
    /\ pc = [s \in Sessions |-> "done"]
    /\ new_df = [s \in Sessions |-> <<>>]
    /\ agent_state = NoWorkflow

SpecHistory == InitHistory /\ [][Next]_vars

\* the history grows by one user entry and, after it, one assistant entry
ExtendedByOneExchange ==
    /\ Len(conversation_history') = Len(conversation_history) + 2
    /\ SubSeq(conversation_history', 1, Len(conversation_history)) = conversation_history
    /\ conversation_history'[Len(conversation_history) + 1].role = "user"
    /\ conversation_history'[Len(conversation_history) + 2].role = "assistant"
    /\ conversation_history'[Len(conversation_history) + 2].content = response'

\* C29: between resets the history is append-only: every processed input
\* extends it by exactly one user entry followed by one assistant entry, and
\* no earlier entry is changed, reordered or removed.
C29_HistoryAppendOnly ==
    [][\/ response' = Resp("conversation_reset") /\ conversation_history' = <<>>
       \/ inputs' = inputs + 1 /\ ExtendedByOneExchange]_vars

\* C30: the Reset Conversation command leaves the stage greeting and the
\* patient, the appointment and the history empty; and no input other than
\* one that completes a booking discards patient data of the session: every
\* field that held a value before the input holds one after it.
C30_OnlyResetDiscards ==
    /\ response = Resp("conversation_reset") =>
          /\ stage = "greeting"
          /\ current_patient = EmptyDict
          /\ appointment_data = EmptyDict
          /\ conversation_history = <<>>
    /\ \A u \in UserInputs, lg \in BOOLEAN : \A env \in EnvsFor(u, lg) :
          LET Kept(r) ==
                \/ r.response.kind = "appointment_confirmed"
                \/ \A k \in DOMAIN current_patient :
                      current_patient[k] # Null =>
                          Has(r.m.current_patient, k) /\ r.m.current_patient[k] # Null
          IN Kept(main_input(Machine, u, lg, env))

DurationOfType(patient_type) == IF patient_type = "Returning" THEN 30 ELSE 60

\* C31: in every persisted appointment record, those already persisted and
\* the one that a confirmation in the current state persists, the duration
\* agrees with the patient type: 30 for Returning, 60 for New.
C31_DurationMatchesType ==
    /\ \A i \in 1..Len(appointments) :
          appointments[i].duration = DurationOfType(appointments[i].patient_type)
    /\ stage = "confirmation" =>
          LET Agrees(r) ==
                \A i \in 1..Len(r.m.appointments) :
                    r.m.appointments[i].duration
                        = DurationOfType(r.m.appointments[i].patient_type)
          IN Agrees(main_input(Machine, "yes", FALSE, BaseEnv))

\* the directory record of the patient that the session names (none: EmptyDict)
SessionRecord ==
    IF Has(current_patient, "name") /\ Has(current_patient, "dob")
    THEN DirectoryRecord(current_patient) ELSE EmptyDict

\* C32: the identity and contact fields of a record that a confirmation
\* persists are those of the patient of the conversation: the directory's,
\* when the lookup of the conversation found the patient, and blank when it
\* found nobody; none is left over from an earlier booking conversation.
C32_NoStaleIdentity ==
    stage = "confirmation" =>
        LET Own(r) ==
              \A i \in (Len(appointments) + 1)..Len(r.m.appointments) :
                  /\ r.m.appointments[i].patient_name =
                        <<GetOr(SessionRecord, "first_name", ""),
                          GetOr(SessionRecord, "last_name", "")>>
                  /\ r.m.appointments[i].email = GetOr(SessionRecord, "email", "")
                  /\ r.m.appointments[i].phone = GetOr(SessionRecord, "phone", "")
        IN Own(main_input(Machine, "yes", FALSE, BaseEnv))

\* f"{first_name} {last_name}" for the names of the model
NameText(patient_name) ==
    CASE patient_name = <<"John", "Doe">> -> "John Doe"
      [] patient_name = <<"Jane", "Smith">> -> "Jane Smith"
      [] patient_name = <<"", "">> -> " "
      [] OTHER -> "<other name>"

\* C33: the patient_name of the record that a confirmation assembles is the
\* name that the session holds for the patient, whether or not the directory
\* knows the patient; it is not blank when a name was given at the greeting.
C33_RecordCarriesName ==
    (stage = "confirmation" /\ Truthy(Get(current_patient, "name"))) =>
        LET Named(r) ==
              \A i \in (Len(appointments) + 1)..Len(r.m.appointments) :
                  /\ r.m.appointments[i].patient_name # <<"", "">>
                  /\ NameText(r.m.appointments[i].patient_name) = current_patient["name"]
        IN Named(main_input(Machine, "yes", FALSE, BaseEnv))

\* C34: an affirmative answer at the confirmation stage that ends with the
\* error response, the stage still confirmation, has persisted no
\* appointment record and made no calendar booking, so that a second yes
\* cannot add a second record for the same appointment.
C34_FailedConfirmationPersistsNothing ==
    stage = "confirmation" =>
        \A env \in ConfirmEnvs :
            LET Atomic(r) ==
                  (r.response.kind = "confirm_error" \/ r.m.stage = "confirmation") =>
                      /\ r.m.appointments = appointments
                      /\ r.m.calendar_bookings = calendar_bookings
            IN Atomic(main_input(Machine, "yes", FALSE, env))

----------------------------------------------------------------------------
(* Two sessions that confirm a booking on the same day. Each of the three *)
(* files is read (when it exists) and then written as a whole, and the    *)
(* threads of the two sessions interleave between those steps.            *)

\* the appointment id that a session's confirmation drew
SessionUuid(s) == IF s = "s1" THEN "APT0000000A" ELSE "APT0000000B"

SessionAppointment(s) == [appointment_id |-> SessionUuid(s), status |-> "Confirmed"]
SessionBooking(s) == [booking_id |-> SessionUuid(s), status |-> "Scheduled"]
SessionReminders(s) ==
    << [reminder_id |-> <<"R1", SessionUuid(s)>>, appointment_id |-> SessionUuid(s)],
       [reminder_id |-> <<"R2", SessionUuid(s)>>, appointment_id |-> SessionUuid(s)],
       [reminder_id |-> <<"R3", SessionUuid(s)>>, appointment_id |-> SessionUuid(s)] >>

\* a row that an earlier booking of the day left in a file
EarlierRow == [appointment_id |-> "APT00000000", status |-> "Confirmed"]

\* pd.concat([pd.read_excel(filename), pd.DataFrame(rows)]) when the file
\* exists, pd.DataFrame(rows) when it does not (an absent file has no rows)
concat_existing(file_rows, rows) == file_rows \o rows

InitConcurrent ==
    /\ stage = "confirmation"
    /\ current_patient = EmptyDict
    /\ appointment_data = EmptyDict
    /\ conversation_history = <<>>
    /\ doctor_schedules_df = TRUE
    /\ appointments \in {<<>>, <<EarlierRow>>}
    /\ calendar_bookings \in {<<>>, <<EarlierRow>>}
    /\ reminders \in {<<>>, <<EarlierRow>>}
    /\ emails = <<>>
    /\ response = Resp("start")
    /\ uncaught = FALSE
    /\ conversation = FreshConversation
    /\ inputs = 0
    /\ record_history = FALSE
    /\ pc = [s \in Sessions |-> "export_read"]
    /\ new_df = [s \in Sessions |-> <<>>]
    /\ agent_state = NoWorkflow

\* a session reads the file of its step and builds the frame to write
ReadStep(s, at, file_rows, rows, then) ==
    /\ pc[s] = at
    /\ new_df' = [new_df EXCEPT ![s] = concat_existing(file_rows, rows)]
    /\ pc' = [pc EXCEPT ![s] = then]

\* new_df.to_excel(filename): the file becomes the frame
WriteStep(s, at, then) ==
    /\ pc[s] = at
    /\ pc' = [pc EXCEPT ![s] = then]
    /\ new_df' = [new_df EXCEPT ![s] = <<>>]

SessionFrame == <<stage, current_patient, appointment_data, conversation_history,
                  doctor_schedules_df, emails, response, uncaught, conversation,
                  inputs, record_history, agent_state>>

ExportRead ==
    \E s \in Sessions :
        /\ ReadStep(s, "export_read", appointments, <<SessionAppointment(s)>>, "export_write")
        /\ UNCHANGED <<appointments, calendar_bookings, reminders, SessionFrame>>

ExportWrite ==
    \E s \in Sessions :
        /\ WriteStep(s, "export_write", "calendly_read")
        /\ appointments' = new_df[s]
        /\ UNCHANGED <<calendar_bookings, reminders, SessionFrame>>

CalendlyRead ==
    \E s \in Sessions :
        /\ ReadStep(s, "calendly_read", calendar_bookings, <<SessionBooking(s)>>,
                    "calendly_write")
        /\ UNCHANGED <<appointments, calendar_bookings, reminders, SessionFrame>>

CalendlyWrite ==
    \E s \in Sessions :
        /\ WriteStep(s, "calendly_write", "reminders_read")
        /\ calendar_bookings' = new_df[s]
        /\ UNCHANGED <<appointments, reminders, SessionFrame>>

RemindersRead ==
    \E s \in Sessions :
        /\ ReadStep(s, "reminders_read", reminders, SessionReminders(s), "reminders_write")
        /\ UNCHANGED <<appointments, calendar_bookings, reminders, SessionFrame>>

RemindersWrite ==
    \E s \in Sessions :
        /\ WriteStep(s, "reminders_write", "done")
        /\ reminders' = new_df[s]
        /\ UNCHANGED <<appointments, calendar_bookings, SessionFrame>>

NextConcurrent ==
    \/ ExportRead
    \/ ExportWrite
    \/ CalendlyRead
    \/ CalendlyWrite
    \/ RemindersRead
    \/ RemindersWrite

SpecConcurrent == InitConcurrent /\ [][NextConcurrent]_vars

\* C35: when two sessions confirm at the same time, then in every
\* interleaving of their read and write steps, once both are done the
\* appointments file holds both records, the calendar file both bookings
\* and the reminders file the reminders of both.
C35_NoRecordLost ==
    (\A s \in Sessions : pc[s] = "done") =>
        \A s \in Sessions :
            /\ SessionAppointment(s) \in Range(appointments)
            /\ SessionBooking(s) \in Range(calendar_bookings)
            /\ Range(SessionReminders(s)) \subseteq Range(reminders)

\* the extraction of a message that gives exactly the fields asked for
GivesAsked(llm, asked) ==
    /\ llm.kind = "dict"
    /\ \A k \in {"name", "dob", "doctor"} : Truthy(Get(llm.json, k)) <=> k \in asked

\* C36: at the greeting stage, when the last response asked for the fields
\* still missing and the session holds the others, a message that gives
\* exactly the fields asked for completes name, date of birth and doctor
\* and the stage leaves greeting for the lookup.
C36_FieldsOverSeveralMessages ==
    (stage = "greeting" /\ response.kind = "provide_missing") =>
        \A env \in EnvsAt(stage) :
            LET held == {k \in {"name", "dob", "doctor"} : Truthy(Get(current_patient, k))}
                Left(r) ==
                  /\ "lookup_patient" \in Range(r.m.calls)
                  /\ r.m.stage # "greeting"
            IN (GivesAsked(env.greeting_llm, response.missing)
                  /\ held \cup response.missing = {"name", "dob", "doctor"})
               => Left(main_input(Machine, "hello", FALSE, env))

\* C37: whenever the stage is insurance or confirmation the appointment data
\* holds a selected_slot together with date, doctor, duration and
\* available_slots; hence no input that main() dispatches gets the
\* insurance handler's "Please first select an appointment time slot."
C37_SlotSelectedBeforeInsurance ==
    /\ stage \in {"insurance", "confirmation"} =>
          \A k \in AppointmentFields : Has(appointment_data, k)
    /\ response.kind # "select_slot_first"
    /\ \A u \in UserInputs, lg \in BOOLEAN :
        \A env \in IF stage = "confirmation"
                    THEN {BaseEnv, [BaseEnv EXCEPT !.forms_ok = FALSE]}
                    ELSE EnvsFor(u, lg) :
          LET Selected(r) ==
                /\ r.response.kind # "select_slot_first"
                /\ r.m.stage \in {"insurance", "confirmation"} =>
                      \A k \in AppointmentFields : Has(r.m.appointment_data, k)
          IN Selected(main_input(Machine, u, lg, env))

C37_Witness ==
    /\ stage = "confirmation"
    /\ response.kind = "confirmation_summary"
    /\ \A k \in AppointmentFields : Has(appointment_data, k)
    /\ appointment_data["selected_slot"] \in Range(appointment_data["available_slots"])

\* C38: every slot that the scheduling stage offers ends at its start plus
\* the session's duration (30 or 60 minutes), on every path of the slot
\* provider, the fallback list included.
C38_SlotLengthIsDuration ==
    /\ \A i \in 1..Len(OfferedSlots) :
          OfferedSlots[i].end = OfferedSlots[i].start + appointment_data["duration"]
    /\ stage = "scheduling" =>
          \A env \in EnvsAt(stage) :
              LET Offered(r) ==
                    r.response.kind = "slots_offered" =>
                        /\ r.m.appointment_data["duration"] \in {30, 60}
                        /\ \A slot \in Range(r.m.appointment_data["available_slots"]) :
                              slot.end = slot.start + r.m.appointment_data["duration"]
              IN Offered(main_input(Machine, "next thursday", FALSE, env))

----------------------------------------------------------------------------
(* langgraph_agents.py: the node graph that calls the agent's handlers.   *)
(* graph.invoke runs the entry node, routes on next_action and goes on    *)
(* until END; each node reads the last message, which after the first     *)
(* node is the response that the node before it appended.                 *)

\* the text of a message as a handler's user_input: the user's own text, or
\* a response of the agent
MessageText(message) ==
    IF message.role = "user" THEN message.content.kind ELSE "<assistant text>"

\* "provide" in response.lower() and ("name" in ... or "birth" in ...)
AsksNameOrBirth(resp) ==
    \/ resp.kind \in {"hello_provide_all", "need_complete_info"}
    \/ resp.kind = "provide_missing" /\ resp.missing \cap {"name", "dob"} # {}

\* "date would you prefer" in response
AsksDate(resp) == resp.kind \in {"welcome_back", "not_in_system"}

\* "select a slot number" in response.lower()
AsksSlotNumber(resp) == resp.kind = "slots_offered"

\* "confirm your appointment" in response.lower()
AsksConfirmation(resp) == resp.kind = "confirmation_summary"

\* what a node returns: the AgentState and the session it leaves
Visited(state, r, next_action, stage_set) ==
    [state |-> [state EXCEPT !.last_message = [role |-> "assistant", content |-> r.response],
                             !.next_action = next_action,
                             !.stage = IF stage_set = "" THEN @ ELSE stage_set],
     r |-> r]

greeting_node(state, m, env) ==
    LET Answered(r) ==
          IF AsksNameOrBirth(r.response) THEN Visited(state, r, "greeting", "")
          ELSE Visited(state, r, "lookup", "patient_lookup")
    IN Answered(handle_greeting(m, MessageText(state.last_message), env))

lookup_node(state, m, env) ==
    LET Answered(r) ==
          IF AsksDate(r.response) THEN Visited(state, r, "scheduling", "scheduling")
          ELSE Visited(state, r, "lookup", "")
    IN Answered(handle_patient_lookup(m, MessageText(state.last_message), env))

scheduling_node(state, m, env) ==
    LET Answered(r) ==
          IF AsksSlotNumber(r.response) THEN Visited(state, r, "insurance", "insurance")
          ELSE Visited(state, r, "scheduling", "")
    IN Answered(handle_scheduling(m, MessageText(state.last_message), env))

insurance_node(state, m, env) ==
    LET last_message == MessageText(state.last_message)
        Answered(r) ==
          IF AsksConfirmation(r.response) THEN Visited(state, r, "confirmation", "confirmation")
          ELSE Visited(state, r, "insurance", "")
    IN IF isdigit(last_message)
       THEN IF ~IntParses(last_message) THEN Visited(state, Raise(m), "insurance", "")
            ELSE Visited(state, Result(m, Resp("slot_selected")), "insurance", "")
       ELSE Answered(handle_insurance(m, last_message, env))

confirmation_node(state, m, env) ==
    LET last_message == MessageText(state.last_message) IN
    IF lower(last_message) \in AffirmativeTokens
    THEN Visited(state, Result(m, Resp("processing_confirmation")), "calendar", "")
    ELSE IF lower(last_message) \in NegativeTokens
    THEN Visited(state, Result(m, Resp("no_problem")), "scheduling", "scheduling")
    ELSE Visited(state, Result(m, Resp("please_confirm")), "confirmation", "")

calendar_node(state, m, env) ==
    [state |-> [state EXCEPT !.last_message =
                   [role |-> "system", content |-> Resp("calendar_booked")]],
     r |-> Result(m, Resp("calendar_booked"))]

email_node(state, m, env) ==
    [state |-> [state EXCEPT !.last_message =
                   [role |-> "system", content |-> Resp("email_sent")]],
     r |-> Result(m, Resp("email_sent"))]

reminder_node(state, m, env) ==
    Visited(state, Result(m, Resp("langgraph_workflow_complete")), state.next_action, "")

\* the edges of _create_graph: the conditional ones map next_action to a node
route(node, next_action) ==
    CASE node = "greeting_agent" ->
           IF next_action = "lookup" THEN "lookup_agent" ELSE "greeting_agent"
      [] node = "lookup_agent" ->
           IF next_action = "scheduling" THEN "scheduling_agent" ELSE "lookup_agent"
      [] node = "scheduling_agent" ->
           IF next_action = "insurance" THEN "insurance_agent" ELSE "scheduling_agent"
      [] node = "insurance_agent" ->
           IF next_action = "confirmation" THEN "confirmation_agent" ELSE "insurance_agent"
      [] node = "confirmation_agent" ->
           IF next_action = "calendar" THEN "calendar_integration"
           ELSE IF next_action = "scheduling" THEN "scheduling_agent"
           ELSE "confirmation_agent"
      [] node = "calendar_integration" -> "email_notification"
      [] node = "email_notification" -> "reminder_setup"
      [] OTHER -> "END"

visit(node, state, m, env) ==
    CASE node = "greeting_agent" -> greeting_node(state, m, env)
      [] node = "lookup_agent" -> lookup_node(state, m, env)
      [] node = "scheduling_agent" -> scheduling_node(state, m, env)
      [] node = "insurance_agent" -> insurance_node(state, m, env)
      [] node = "confirmation_agent" -> confirmation_node(state, m, env)
      [] node = "calendar_integration" -> calendar_node(state, m, env)
      [] node = "email_notification" -> email_node(state, m, env)
      [] OTHER -> reminder_node(state, m, env)

\* the environments that the handler called by a node can meet
NodeEnvs(node) ==
    CASE node = "greeting_agent" -> EnvsAt("greeting")
      [] node = "scheduling_agent" -> EnvsAt("scheduling")
      [] node = "insurance_agent" -> EnvsAt("insurance")
      [] OTHER -> {BaseEnv}

InitGraph ==
    /\ stage = "greeting"
    /\ current_patient = EmptyDict
    /\ appointment_data = EmptyDict
    /\ conversation_history = <<>>
    /\ doctor_schedules_df \in BOOLEAN
    /\ appointments = <<>>
    /\ calendar_bookings = <<>>
    /\ reminders = <<>>
    /\ emails = <<>>
    /\ response = Resp("start")
    /\ uncaught = FALSE
    /\ conversation = FreshConversation
    /\ inputs = 0
    /\ record_history = FALSE
    /\ pc = [s \in Sessions |-> "done"]
    /\ new_df = [s \in Sessions |-> <<>>]
    /\ agent_state = NoWorkflow

GraphFrame == <<conversation_history, doctor_schedules_df, conversation, inputs,
                record_history, pc, new_df>>

\* run_workflow(user_input): the initial state, at the entry point
RunWorkflow ==
    /\ agent_state.node = "idle"
    /\ \E user_input \in UserInputs :
          agent_state' = [node |-> "greeting_agent",
                          last_message |-> [role |-> "user", content |-> Resp(user_input)],
                          next_action |-> "greeting", stage |-> "greeting",
                          visits |-> 0]
    /\ UNCHANGED <<stage, current_patient, appointment_data, appointments,
                   calendar_bookings, reminders, emails, response, uncaught, GraphFrame>>

\* graph.invoke: one node runs and the graph routes; an exception that a
\* node does not catch ends the workflow
GraphStep ==
    /\ agent_state.node \notin {"idle", "END", "ERROR"}
    /\ agent_state.visits < MaxNodeVisits
    /\ \E env \in NodeEnvs(agent_state.node) :
          LET Routed(v) ==
                /\ agent_state' =
                      [v.state EXCEPT !.node =
                          IF v.r.exc THEN "ERROR"
                          ELSE route(agent_state.node, v.state.next_action),
                                      !.visits = @ + 1]
                /\ stage' = v.r.m.stage
                /\ current_patient' = v.r.m.current_patient
                /\ appointment_data' = v.r.m.appointment_data
                /\ appointments' = v.r.m.appointments
                /\ calendar_bookings' = v.r.m.calendar_bookings
                /\ reminders' = v.r.m.reminders
                /\ emails' = v.r.m.emails
                /\ response' = v.r.response
                /\ uncaught' = v.r.exc
          IN Routed(visit(agent_state.node, agent_state, Machine, env))
    /\ UNCHANGED GraphFrame

\* graph.invoke gives up after MaxNodeVisits steps that have not reached END:
\* the GraphRecursionError leaves run_workflow, which catches nothing
GraphRecursionError ==
    /\ agent_state.node \notin {"idle", "END", "ERROR"}
    /\ agent_state.visits = MaxNodeVisits
    /\ agent_state' = [agent_state EXCEPT !.node = "ERROR"]
    /\ uncaught' = TRUE
    /\ UNCHANGED <<stage, current_patient, appointment_data, appointments,
                   calendar_bookings, reminders, emails, response, GraphFrame>>

NextGraph ==
    \/ RunWorkflow
    \/ GraphStep
    \/ GraphRecursionError

\* graph.invoke keeps running nodes while it has not reached END
SpecGraph ==
    InitGraph /\ [][NextGraph]_vars /\ WF_vars(GraphStep) /\ WF_vars(GraphRecursionError)

\* C39: the node graph terminates for every input and every extractor
\* outcome: a workflow that was started reaches END.
C39_WorkflowReachesEnd ==
    (agent_state.node = "greeting_agent") ~> (agent_state.node = "END")


----------------------------------------------------------------------------
\* the eight nodes of main.py's graph in pipeline order
Pipeline ==
    <<"greeting_agent", "lookup_agent", "scheduling_agent", "insurance_agent",
      "confirmation_agent", "calendar_integration", "email_notification",
      "reminder_setup">>

\* C40: in LangGraph mode an input that is handed to main.py's graph visits
\* the eight nodes once each in pipeline order and ends, leaves the stage,
\* the patient data and the appointment data as they were, persists no
\* record and sends no notification, for every input and every stage.
C40_GraphRunIsInert ==
    \A u \in UserInputs :
        ~(stage = "scheduling" /\ isdigit(u)) =>
            LET Inert(r) ==
                  /\ ~r.exc
                  /\ r.m.calls = Pipeline
                  /\ r.response = Resp("langgraph_complete")
                  /\ r.m.stage = stage /\ r.m.path = <<>>
                  /\ r.m.current_patient = current_patient
                  /\ r.m.appointment_data = appointment_data
                  /\ r.m.appointments = appointments
                  /\ r.m.calendar_bookings = calendar_bookings
                  /\ r.m.emails = emails
                  /\ r.m.reminders = reminders
            IN Inert(main_input(Machine, u, TRUE, BaseEnv))

\* an input was processed by the graph at the confirmation stage, where the
\* plain dispatch would have booked
C40_Witness ==
    /\ response = Resp("langgraph_complete")
    /\ stage = "confirmation"
    /\ Has(appointment_data, "selected_slot")
    /\ appointments = <<>>

====
